---- MODULE Spec2Model ----
(***************************************************************************)
(* The tool-using agent of src/src/main.ts: a LangGraph state graph with   *)
(* two nodes, classifyTool (getToolIntent) and verifyAndExecuteToolIntent  *)
(* (verifyAndExecuteTool), the router routeAfterClassification between     *)
(* them, and the entry point getFormattedToolOrAnswerToUserInput that      *)
(* builds the initial state, runs the graph and assembles the              *)
(* AgentResponse.                                                          *)
(*                                                                         *)
(* JavaScript values of mixed type are modelled as tagged records (Num,    *)
(* Str, Obj, Arr), an optional value as None / Some(v).  Strings are TLA+  *)
(* strings, so lengths, prefixes and concatenations are the real ones.     *)
(* Wall-clock values (timestamp, durationMs, timing_ms, startedAt,         *)
(* completedAt) are not modelled: no branch of the code reads them.        *)
(* Numbers are integers; IEEE overflow and fractions are outside the       *)
(* inputs the model draws.                                                 *)
(***************************************************************************)
EXTENDS Integers, Sequences, FiniteSets, TLC

(***************************************************************************)
(* Bounds of the model.                                                    *)
(***************************************************************************)
\* the largest number of tool calls the model requests in one decision
MaxCalls == 2
\* the largest step budget of the generalised entry point run(query, maxStep)
MaxStepBound == 3

(***************************************************************************)
(* Values.                                                                 *)
(***************************************************************************)
None == [some |-> FALSE]
Some(v) == [some |-> TRUE, v |-> v]

Num(n) == [t |-> "num", n |-> n]
Str(s) == [t |-> "str", s |-> s]
Obj(f) == [t |-> "obj", f |-> f]
Arr(a) == [t |-> "arr", a |-> a]

\* the mapping with no keys: the JavaScript object {}
EmptyObject == [k \in {} |-> None]

Range(s) == {s[i] : i \in 1..Len(s)}

\* String.prototype.startsWith
StartsWith(s, p) == Len(s) >= Len(p) /\ SubSeq(s, 1, Len(p)) = p

\* String.prototype.slice(0, n)
Slice(s, n) == IF Len(s) <= n THEN s ELSE SubSeq(s, 1, n)

\* String.prototype.includes for a one-character needle
Includes(s, ch) == \E i \in 1..Len(s) : SubSeq(s, i, i) = ch

(***************************************************************************)
(* JSON.parse on the JSON texts the model's inputs hold: a text of this    *)
(* table parses to the value beside it, every other string beginning with  *)
(* "{" or "[" (a truncated text, say) makes JSON.parse throw.              *)
(***************************************************************************)
WhereSarah == [field |-> Str("name"), operator |-> Str("="), value |-> Str("Sarah Connor")]
WhereSarahText == "{\"field\":\"name\",\"operator\":\"=\",\"value\":\"Sarah Connor\"}"
NestedText == "{\"inner\":\"{\\\"x\\\":1}\"}"
InnerText == "{\"x\":1}"
ColumnsText == "[\"name\"]"
BrokenText == "{\"field\":"
\* a where clause whose value is a string that is itself a JSON text
WhereJsonValue == [field |-> Str("name"), operator |-> Str("="), value |-> Str(InnerText)]
WhereJsonValueText == "{\"field\":\"name\",\"operator\":\"=\",\"value\":\"{\\\"x\\\":1}\"}"

JSONparse(s) ==
    CASE s = WhereSarahText -> Some(Obj(WhereSarah))
      [] s = InnerText -> Some(Obj([x |-> Num(1)]))
      [] s = NestedText -> Some(Obj([inner |-> Str(InnerText)]))
      [] s = ColumnsText -> Some(Arr(<<Str("name")>>))
      [] s = WhereJsonValueText -> Some(Obj(WhereJsonValue))
      [] OTHER -> None

(***************************************************************************)
(* parseStringifiedJsonFields: the argument normalizer.                    *)
(***************************************************************************)
\* result[key] = value on the object literal {} is an ordinary assignment:
\* for the key __proto__ it runs the setter inherited from Object.prototype,
\* which makes no own property; it sets the prototype of result when the
\* value is an object or an array and does nothing for any other value.
ProtoKey == "__proto__"
PrototypeSlot == "[[Prototype]]"

RECURSIVE parseStringifiedJsonFields(_)
parseStringifiedJsonFields(obj) ==
    LET assigned ==
          [key \in DOMAIN obj |->
              LET value == obj[key] IN
              IF value.t = "str" /\ (StartsWith(value.s, "{") \/ StartsWith(value.s, "["))
              THEN IF JSONparse(value.s).some THEN JSONparse(value.s).v ELSE value
              ELSE IF value.t = "obj"
                   THEN Obj(parseStringifiedJsonFields(value.f))
                   ELSE value]
        own == [key \in DOMAIN obj \ {ProtoKey} |-> assigned[key]]
    IN  IF ProtoKey \in DOMAIN obj /\ assigned[ProtoKey].t \in {"obj", "arr"}
        THEN own @@ (PrototypeSlot :> assigned[ProtoKey])
        ELSE own

(***************************************************************************)
(* Input schemas (zod): safeParse gives {success: true, data} with unknown *)
(* keys stripped and defaults filled in, or {success: false, error} with   *)
(* the list of issues.                                                     *)
(***************************************************************************)
Valid(data) == [success |-> TRUE, data |-> data]
Invalid(issues) == [success |-> FALSE, issues |-> issues]
Issue(code, path) == <<[code |-> code, path |-> path]>>

Operations == {"multiply", "add", "subtract", "divide"}

IsString(x, k) == k \in DOMAIN x /\ x[k].t = "str"
IsNumber(x, k) == k \in DOMAIN x /\ x[k].t = "num"

\* z.number() of a required key
NumberIssues(x, k) == IF IsNumber(x, k) THEN <<>> ELSE Issue("invalid_type", <<k>>)

\* z.enum(vals) / z.literal(v) of a required key
EnumIssues(x, k, vals) ==
    IF IsString(x, k) /\ x[k].s \in vals THEN <<>> ELSE Issue("invalid_value", <<k>>)

\* z.number().int().min(lo).max(hi).default(d): an absent key takes the default
RangeIssues(x, k, lo, hi) ==
    IF k \notin DOMAIN x THEN <<>>
    ELSE IF x[k].t # "num" THEN Issue("invalid_type", <<k>>)
    ELSE IF x[k].n < lo THEN Issue("too_small", <<k>>)
    ELSE IF x[k].n > hi THEN Issue("too_big", <<k>>)
    ELSE <<>>

WithDefault(x, k, d) == IF k \in DOMAIN x THEN x[k] ELSE d

\* z.string().url(), on the strings of the model: an http(s) URL
IsUrl(s) == StartsWith(s, "https://") \/ StartsWith(s, "http://")
\* z.string().email(), on the strings of the model: local@domain.tld
IsEmail(s) == Includes(s, "@") /\ Includes(s, ".") /\ ~StartsWith(s, "@")
\* z.string().uuid(), on the strings of the model: 8-4-4-4-12
IsUuid(s) ==
    Len(s) = 36 /\ \A i \in {9, 14, 19, 24} : SubSeq(s, i, i) = "-"

CalculatorInputSchema(x) ==
    LET issues == NumberIssues(x, "a") \o NumberIssues(x, "b")
                    \o EnumIssues(x, "operation", Operations)
    IN  IF issues = <<>>
        THEN Valid([a |-> x.a, b |-> x.b, operation |-> x.operation])
        ELSE Invalid(issues)

DefaultTimeoutMs == 2500
DefaultMaxChars == 1500

WebFetchInputSchema(x) ==
    LET urlIssues == IF IsString(x, "url") /\ IsUrl(x.url.s) THEN <<>>
                     ELSE IF IsString(x, "url") THEN Issue("invalid_format", <<"url">>)
                     ELSE Issue("invalid_type", <<"url">>)
        methodIssues == IF "method" \in DOMAIN x THEN EnumIssues(x, "method", {"GET"}) ELSE <<>>
        issues == urlIssues \o RangeIssues(x, "timeout_ms", 100, 10000)
                    \o RangeIssues(x, "max_chars", 200, 5000) \o methodIssues
    IN  IF issues = <<>>
        THEN Valid([url |-> x.url,
                    timeout_ms |-> WithDefault(x, "timeout_ms", Num(DefaultTimeoutMs)),
                    max_chars |-> WithDefault(x, "max_chars", Num(DefaultMaxChars)),
                    method |-> WithDefault(x, "method", Str("GET"))])
        ELSE Invalid(issues)

CANDIDATE_COLUMN_ENUM == {"id", "name", "email", "address"}
OPPORTUNITY_COLUMN_ENUM == {"id", "name", "position", "stage"}
Stages == {"applied", "screen", "onsite"}

\* z.array(columnEnum).min(1)
ColumnsIssues(x, columnEnum) ==
    IF ~("columns" \in DOMAIN x /\ x.columns.t = "arr")
    THEN Issue("invalid_type", <<"columns">>)
    ELSE IF Len(x.columns.a) < 1 THEN Issue("too_small", <<"columns">>)
    ELSE IF \E i \in 1..Len(x.columns.a) :
                ~(x.columns.a[i].t = "str" /\ x.columns.a[i].s \in columnEnum)
         THEN Issue("invalid_value", <<"columns">>)
         ELSE <<>>

\* the value schema of the where clause of a candidates query, by field
CandidateValueOk(field, s) ==
    CASE field = "name" -> Len(s) >= 1
      [] field = "email" -> IsEmail(s)
      [] field = "id" -> IsUuid(s)
      [] field = "address" -> Len(s) >= 5

\* the value schema of the where clause of an opportunities query, by field
OpportunityValueOk(field, s) ==
    CASE field = "name" -> Len(s) >= 1
      [] field = "position" -> TRUE
      [] field = "id" -> IsUuid(s)
      [] field = "stage" -> s \in Stages

\* the value schema of the where clause of a query of a table, by field
ValueOk(table, field, s) ==
    IF table = "candidates" THEN CandidateValueOk(field, s)
    ELSE OpportunityValueOk(field, s)

\* z.discriminatedUnion('field', [...]) of the where clause
WhereIssues(x, table, fields) ==
    IF ~("where" \in DOMAIN x /\ x.where.t = "obj")
    THEN Issue("invalid_type", <<"where">>)
    ELSE LET w == x.where.f IN
         IF ~(IsString(w, "field") /\ w.field.s \in fields)
         THEN Issue("invalid_union", <<"where", "field">>)
         ELSE EnumIssues(w, "operator", {"="})
                \o (IF ~IsString(w, "value")
                    THEN Issue("invalid_type", <<"where", "value">>)
                    ELSE IF ValueOk(table, w.field.s, w.value.s) THEN <<>>
                    ELSE Issue("invalid_format", <<"where", "value">>))

DefaultLimit == 10
MaxLimit == 25

QuerySchema(x, table, columnEnum) ==
    LET issues == EnumIssues(x, "table", {table}) \o ColumnsIssues(x, columnEnum)
                    \o WhereIssues(x, table, columnEnum)
                    \o RangeIssues(x, "limit", 1, MaxLimit)
    IN  IF issues = <<>>
        THEN Valid([table |-> x.table, columns |-> x.columns,
                    where |-> Obj([field |-> x.where.f.field,
                                   operator |-> x.where.f.operator,
                                   value |-> x.where.f.value]),
                    limit |-> WithDefault(x, "limit", Num(DefaultLimit))])
        ELSE Invalid(issues)

CandidatesInputQuerySchema(x) ==
    QuerySchema(x, "candidates", CANDIDATE_COLUMN_ENUM)

OpportunitiesInputQuerySchema(x) ==
    QuerySchema(x, "opportunities", OPPORTUNITY_COLUMN_ENUM)

(***************************************************************************)
(* Tool executors.  An executor returns an observation or throws; Error    *)
(* values carry the name and the message the callers read.                 *)
(***************************************************************************)
Error(name, message) == [name |-> name, message |-> message]
Returns(observation) == [threw |-> FALSE, value |-> observation]
Throws(err) == [threw |-> TRUE, err |-> err]

\* The message of the ZodError schema.parse throws: the issue list as JSON.
\* The texts stand for zod's rendering (which is longer still: it is indented).
ZodMissingMessage(key) ==
    "[{\"expected\":\"string\",\"code\":\"invalid_type\",\"path\":[\"" \o key
        \o "\"],\"message\":\"Invalid input: expected string, received undefined\"}]"
ZodTooBigMessage(key, max) ==
    "[{\"origin\":\"string\",\"code\":\"too_big\",\"maximum\":" \o ToString(max)
        \o ",\"inclusive\":true,\"path\":[\"" \o key
        \o "\"],\"message\":\"Too big: expected string to have <=" \o ToString(max)
        \o " characters\"}]"
ZodTooSmallMessage(key, min) ==
    "[{\"origin\":\"string\",\"code\":\"too_small\",\"minimum\":" \o ToString(min)
        \o ",\"inclusive\":true,\"path\":[\"" \o key
        \o "\"],\"message\":\"Too small: expected string to have >=" \o ToString(min)
        \o " characters\"}]"

\* error_message: z.string().min(min).max(max) of an output schema: the
\* ZodError parse throws, or None when the observation passes
ErrorMessageFault(observation, min, max) ==
    IF "error_message" \notin DOMAIN observation
    THEN Some(Error("ZodError", ZodMissingMessage("error_message")))
    ELSE IF Len(observation.error_message) < min
    THEN Some(Error("ZodError", ZodTooSmallMessage("error_message", min)))
    ELSE IF Len(observation.error_message) > max
    THEN Some(Error("ZodError", ZodTooBigMessage("error_message", max)))
    ELSE None

CalculatorThrowsOn == 9999
CalculatorMessageMax == 100

CalculatorFailureSchema(observation) ==
    ErrorMessageFault(observation, 5, CalculatorMessageMax)

classifyCalculatorError(input, finite) ==
    IF ~finite
    THEN IF input.operation.s = "divide" /\ input.b.n = 0
         THEN [error_type |-> "invalid_calculation", error_message |-> "Division by zero"]
         ELSE [error_type |-> "invalid_calculation",
               error_message |-> "Non-finite calculation result"]
    ELSE [error_type |-> "runtime_error", error_message |-> "Unknown calculation error"]

\* faulty variant: the difference is taken the wrong way round
ArithmeticSubtractsFromB(operation, a, b) ==
    CASE operation = "multiply" -> [finite |-> TRUE, n |-> a * b]
      [] operation = "add" -> [finite |-> TRUE, n |-> a + b]
      [] operation = "subtract" -> [finite |-> TRUE, n |-> b - a]
      [] operation = "divide" ->
            IF b = 0 THEN [finite |-> FALSE, n |-> 0] ELSE [finite |-> TRUE, n |-> a \div b]

\* the switch of calculatorTool: the result, and whether it is finite
\* (x / 0 is Infinity or NaN; the quotients of the model's inputs are exact)
Arithmetic(operation, a, b) ==
    CASE operation = "multiply" -> [finite |-> TRUE, n |-> a * b]
      [] operation = "add" -> [finite |-> TRUE, n |-> a + b]
      [] operation = "subtract" -> [finite |-> TRUE, n |-> a - b]
      [] operation = "divide" ->
            IF b = 0 THEN [finite |-> FALSE, n |-> 0] ELSE [finite |-> TRUE, n |-> a \div b]

CalculatorFailure(calcInput, error_type, error_message) ==
    [success |-> FALSE, a |-> calcInput.a.n, b |-> calcInput.b.n,
     operation |-> calcInput.operation.s,
     error_type |-> error_type, error_message |-> error_message]

calculatorTool(calcInput) ==
    IF calcInput.a.n = CalculatorThrowsOn THEN Throws(Error("Error", "boom"))
    ELSE
    LET result == Arithmetic(calcInput.operation.s, calcInput.a.n, calcInput.b.n)
        classified == classifyCalculatorError(calcInput, result.finite)
        failure == CalculatorFailure(calcInput, classified.error_type,
                                     classified.error_message)
        \* the fault of the try block, if any: only a failure observation can be refused
        fault == IF result.finite THEN None ELSE CalculatorFailureSchema(failure)
        caught == CalculatorFailure(calcInput, "runtime_error",
                                    IF fault.some THEN Slice(fault.v.message, 50) ELSE "")
    IN  IF ~fault.some
        THEN IF result.finite
             THEN Returns([success |-> TRUE, result |-> result.n, a |-> calcInput.a.n,
                           b |-> calcInput.b.n, operation |-> calcInput.operation.s])
             ELSE Returns(failure)
        ELSE IF CalculatorFailureSchema(caught).some
             THEN Throws(CalculatorFailureSchema(caught).v)
             ELSE Returns(caught)

(***************************************************************************)
(* web_fetch_mock.  What the network does is the environment's choice:     *)
(* a response with a status, an abort by the timeout, or a failed fetch.   *)
(***************************************************************************)
WebMessageMax == 100

WebObservationFailureSchema(observation) ==
    ErrorMessageFault(observation, 5, WebMessageMax)

Min(a, b) == IF a <= b THEN a ELSE b

webFetchTool(webInput, net) ==
    LET \* the fault that leaves the try block, if any
        tryFault ==
            CASE net.kind = "abort" ->
                    Some(Error("AbortError", "This operation was aborted"))
              [] net.kind = "failed" -> Some(Error("TypeError", net.message))
              [] net.kind = "response" ->
                    IF ~(net.status >= 200 /\ net.status <= 299)
                    THEN WebObservationFailureSchema(
                            [success |-> FALSE, status |-> net.status,
                             error_type |-> "http_error"])
                    ELSE None
        errorMessage ==
            IF tryFault.v.name = "AbortError"
            THEN "Request timed out after " \o ToString(webInput.timeout_ms.n) \o "ms"
            ELSE tryFault.v.message
        caught == [success |-> FALSE, error_message |-> errorMessage,
                   error_type |-> "runtime_error"]
    IN  IF ~tryFault.some
        THEN Returns([success |-> TRUE, final_url |-> webInput.url.s,
                      status |-> net.status,
                      text_length |-> Min(net.length, webInput.max_chars.n),
                      truncated |-> net.length > webInput.max_chars.n])
        ELSE IF WebObservationFailureSchema(caught).some
             THEN Throws(WebObservationFailureSchema(caught).v)
             ELSE Returns(caught)

(***************************************************************************)
(* The two lookup tools over their mock tables.                            *)
(***************************************************************************)
mockCandidates ==
    << [id |-> "550e8400-e29b-41d4-a716-446655440001", name |-> "Alice Johnson",
        email |-> "alice@example.com", address |-> "123 Main St, NYC"],
       [id |-> "550e8400-e29b-41d4-a716-446655440002", name |-> "Bob Smith",
        email |-> "bob@example.com", address |-> "456 Oak Ave, LA"],
       [id |-> "550e8400-e29b-41d4-a716-446655440003", name |-> "Carol White",
        email |-> "carol@example.com", address |-> "789 Pine Rd, Chicago"] >>

mockOpportunities ==
    << [id |-> "550e8400-e29b-41d4-a716-446655440010", name |-> "Mcdonalds",
        position |-> "Manager", stage |-> "onsite"],
       [id |-> "550e8400-e29b-41d4-a716-446655440011", name |-> "Burger King",
        position |-> "Product Manager", stage |-> "screen"],
       [id |-> "550e8400-e29b-41d4-a716-446655440012", name |-> "Taco Bell",
        position |-> "Designer", stage |-> "applied"] >>

DbMessageMax == 50

craftDbObservationFailureSchema(observation) ==
    ErrorMessageFault(observation, 5, DbMessageMax)

\* the observation, or the ZodError its own schema check throws
craftDbFailureObservation(table, columns, error) ==
    LET observation == [success |-> FALSE, table |-> table, columns |-> columns,
                        error_message |-> error.message, error_type |-> error.type]
    IN  IF craftDbObservationFailureSchema(observation).some
        THEN Throws(craftDbObservationFailureSchema(observation).v)
        ELSE Returns(observation)

\* the rows of the mock table pass their column schemas, so the success
\* observation always passes craftDbObservationSuccessSchema
craftDbSuccessObservation(table, columns, rows, hasMore) ==
    Returns([success |-> TRUE, table |-> table, columns |-> columns, rows |-> rows,
             has_more |-> hasMore, rows_returned |-> Len(rows)])

dbQueryTool(dbInput, table, noun, mockRows) ==
    LET where == dbInput.where.f
        columns == [i \in 1..Len(dbInput.columns.a) |-> dbInput.columns.a[i].s]
        Matches(row) == row[where.field.s] = where.value.s
        filtered == SelectSeq(mockRows, Matches)
        limited == SubSeq(filtered, 1, Min(Len(filtered), dbInput.limit.n))
        rows == [i \in 1..Len(limited) |-> [c \in Range(columns) |-> limited[i][c]]]
        attempt ==
            IF Len(filtered) = 0
            THEN craftDbFailureObservation(table, columns,
                    [message |-> "No " \o noun \o " found with " \o where.field.s
                                    \o " = " \o where.value.s,
                     type |-> "not_found"])
            ELSE craftDbSuccessObservation(table, columns, rows,
                                           Len(filtered) > dbInput.limit.n)
    IN  IF attempt.threw
        THEN craftDbFailureObservation(table, columns,
                [message |-> Slice(attempt.err.message, 50), type |-> "runtime_error"])
        ELSE attempt

dbQueryCandidatesTool(dbInput) ==
    dbQueryTool(dbInput, "candidates", "candidate", mockCandidates)

dbQueryOpportunitiesTool(dbInput) ==
    dbQueryTool(dbInput, "opportunities", "opportunity", mockOpportunities)

(***************************************************************************)
(* The registry.  TOOL_BY_NAME and TOOL_INPUT_SCHEMAS are object literals  *)
(* with the four tool names as their own keys; indexing an object literal  *)
(* with any other string gives undefined, except for the keys every object *)
(* inherits from Object.prototype, which give a function or an object that *)
(* is neither a tool nor a schema.                                         *)
(***************************************************************************)
ToolType == {"calculator", "web_fetch_mock", "db_query_candidates", "db_query_opportunities"}

ObjectPrototypeKeys ==
    {"constructor", "toString", "toLocaleString", "valueOf", "hasOwnProperty",
     "isPrototypeOf", "propertyIsEnumerable", "__proto__"}

\* literal[name]: "own", "inherited" or "undefined"
PropertyOf(keys, name) ==
    IF name \in keys THEN "own"
    ELSE IF name \in ObjectPrototypeKeys THEN "inherited" ELSE "undefined"

TOOL_BY_NAME(name) == PropertyOf(ToolType, name)
TOOL_INPUT_SCHEMAS(name) == PropertyOf(ToolType, name)

\* schema.safeParse(args) of the schema registered under a tool name
safeParse(name, args) ==
    CASE name = "calculator" -> CalculatorInputSchema(args)
      [] name = "web_fetch_mock" -> WebFetchInputSchema(args)
      [] name = "db_query_candidates" -> CandidatesInputQuerySchema(args)
      [] name = "db_query_opportunities" -> OpportunitiesInputQuerySchema(args)

\* tool.invoke(input) of the tool registered under a tool name
invoke(name, input, net) ==
    CASE name = "calculator" -> calculatorTool(input)
      [] name = "web_fetch_mock" -> webFetchTool(input, net)
      [] name = "db_query_candidates" -> dbQueryCandidatesTool(input)
      [] name = "db_query_opportunities" -> dbQueryOpportunitiesTool(input)

(***************************************************************************)
(* Messages and trace entries.                                             *)
(***************************************************************************)
\* JSON.stringify of an observation or of an issue list: the text that
\* JSON.parse turns back into the value
JSONstringify(value) == [json |-> value]

HumanMessage(content) == [type |-> "human", content |-> content]
ToolMessage(tool_call_id, content) ==
    [type |-> "tool", tool_call_id |-> tool_call_id, content |-> content]

LLMTraceEntry(step_, decision) ==
    [type |-> "llm", data |-> [step |-> step_, decision |-> decision]]
ToolUseTraceEntry(step_, toolsCalled) ==
    [type |-> "llm",
     data |-> [step |-> step_, decision |-> "tool_use", toolsCalled |-> toolsCalled]]

\* an execution entry of a branch that sets validationError
RejectedTraceEntry(step_, toolCall, input, validationError, observation) ==
    [type |-> "tool",
     data |-> [step |-> step_, toolName |-> toolCall.name, toolCallId |-> toolCall.id,
               input |-> input, inputValid |-> FALSE,
               validationError |-> validationError,
               observation |-> observation, success |-> FALSE]]

\* an execution entry of a call that reached the executor
ExecutedTraceEntry(step_, toolCall, input, observation, success) ==
    [type |-> "tool",
     data |-> [step |-> step_, toolName |-> toolCall.name, toolCallId |-> toolCall.id,
               input |-> input, inputValid |-> TRUE,
               observation |-> observation, success |-> success]]

FailureObservation(error_type, error_message) ==
    [success |-> FALSE, error_type |-> error_type, error_message |-> error_message]

(***************************************************************************)
(* One iteration of the loop of verifyAndExecuteTool, for one requested    *)
(* call: the tool-result message and trace entry it pushes and whether the *)
(* executor ran, or the exception that leaves the loop.                    *)
(***************************************************************************)
\* faulty variant: the tool-result message keyed by the tool's name, not the call's id
PushedKeyedByName(toolCall, observation, entry, invoked) ==
    [threw |-> FALSE, message |-> ToolMessage(toolCall.name, JSONstringify(observation)),
     entry |-> entry, invoked |-> invoked]

Pushed(toolCall, observation, entry, invoked) ==
    [threw |-> FALSE, message |-> ToolMessage(toolCall.id, JSONstringify(observation)),
     entry |-> entry, invoked |-> invoked]

\* if (!tool) { ... continue; }
UnknownTool(step_, toolCall) ==
    LET observation == FailureObservation("invalid_input",
                            "Unknown tool call: " \o toolCall.name)
    IN  Pushed(toolCall, observation,
               RejectedTraceEntry(step_, toolCall, toolCall.args,
                                  [text |-> "Unknown tool"], observation),
               FALSE)

\* if (!schema) { ... continue; }
NoSchema(step_, toolCall) ==
    LET observation == FailureObservation("invalid_schema",
                            "No schema for tool: " \o toolCall.name)
    IN  Pushed(toolCall, observation,
               RejectedTraceEntry(step_, toolCall, toolCall.args,
                                  [text |-> "No schema found"], observation),
               FALSE)

\* faulty variant: the branch lacks its continue, and control falls into the try
\* block, where the executor is invoked
SchemaFailureFallsThrough(step_, toolCall, processedArgs, parsed) ==
    LET observation == FailureObservation("invalid_schema", "Schema Validation Failed")
    IN  Pushed(toolCall, observation,
               RejectedTraceEntry(step_, toolCall, processedArgs,
                                  JSONstringify(parsed.issues), observation),
               TRUE)

\* faulty variant: a schema failure reported with the error type of an unknown tool
SchemaFailureAsInvalidInput(step_, toolCall, processedArgs, parsed) ==
    LET observation == FailureObservation("invalid_input", "Schema Validation Failed")
    IN  Pushed(toolCall, observation,
               RejectedTraceEntry(step_, toolCall, processedArgs,
                                  JSONstringify(parsed.issues), observation),
               FALSE)

\* if (!parsed.success) { ... continue; }
SchemaFailure(step_, toolCall, processedArgs, parsed) ==
    LET observation == FailureObservation("invalid_schema", "Schema Validation Failed")
    IN  Pushed(toolCall, observation,
               RejectedTraceEntry(step_, toolCall, processedArgs,
                                  JSONstringify(parsed.issues), observation),
               FALSE)

\* faulty variant: no catch around tool.invoke, so what the executor throws leaves
\* the Gate
ExecuteUncaught(step_, toolCall, parsed, net) ==
    LET toolResult == invoke(toolCall.name, parsed.data, net) IN
    IF ~toolResult.threw
    THEN Pushed(toolCall, toolResult.value,
                ExecutedTraceEntry(step_, toolCall, parsed.data, toolResult.value,
                                   toolResult.value.success # FALSE),
                TRUE)
    ELSE [threw |-> TRUE, err |-> toolResult.err]

\* try { tool.invoke(parsed.data) ... } catch (err) { ... }
Execute(step_, toolCall, parsed, net) ==
    LET toolResult == invoke(toolCall.name, parsed.data, net) IN
    IF ~toolResult.threw
    THEN Pushed(toolCall, toolResult.value,
                ExecutedTraceEntry(step_, toolCall, parsed.data, toolResult.value,
                                   toolResult.value.success # FALSE),
                TRUE)
    ELSE LET observation == FailureObservation("runtime_error", toolResult.err.message)
         IN  Pushed(toolCall, observation,
                    ExecutedTraceEntry(step_, toolCall, parsed.data, observation, FALSE),
                    TRUE)

\* schema.safeParse(processedArgs), outside the try block: the value an
\* inherited key gives has no safeParse method, and the call of it throws
SafeParseOrThrow(toolCall, processedArgs) ==
    IF TOOL_INPUT_SCHEMAS(toolCall.name) = "inherited"
    THEN Throws(Error("TypeError", "schema.safeParse is not a function"))
    ELSE Returns(safeParse(toolCall.name, processedArgs))

GateIteration(step_, toolCall, net) ==
    IF TOOL_BY_NAME(toolCall.name) = "undefined" THEN UnknownTool(step_, toolCall)
    ELSE IF TOOL_INPUT_SCHEMAS(toolCall.name) = "undefined" THEN NoSchema(step_, toolCall)
    ELSE
    LET processedArgs == parseStringifiedJsonFields(toolCall.args)
        parsed == SafeParseOrThrow(toolCall, processedArgs)
    IN  IF parsed.threw THEN [threw |-> TRUE, err |-> parsed.err]
        ELSE IF ~parsed.value.success
        THEN SchemaFailure(step_, toolCall, processedArgs, parsed.value)
        ELSE Execute(step_, toolCall, parsed.value, net)

(***************************************************************************)
(* The state: the AgentState channels of the graph, the position of the    *)
(* run, the locals of a Gate pass in progress, the exception in flight,    *)
(* the AgentResponse returned, and observers of the run (every executor    *)
(* invocation, the number of model invocations and Gate passes, the trace  *)
(* entries the nodes returned, and the model's last reply).                *)
(***************************************************************************)
VARIABLES messages, userQuery, tool_calls, step, response, maxStep, trace,
          pc, callIndex, toolMessages, traceEntries, thrown, agentResponse,
          issued, executorCalls, modelCalls, gatePasses, returned, lastAiMessage,
          active, parked

state == <<messages, userQuery, tool_calls, step, response, maxStep, trace>>
locals == <<callIndex, toolMessages, traceEntries>>
observers == <<issued, executorCalls, modelCalls, gatePasses, returned, lastAiMessage>>
\* the query whose code is running, and the query suspended at an await, if
\* there is one, with everything its call of the entry point holds
invocations == <<active, parked>>
vars == <<state, pc, locals, thrown, agentResponse, observers, invocations>>

END == "END"

\* const maxStep = 3 of the entry point
EntryMaxStep == 3

(***************************************************************************)
(* What the environment supplies: the requests the model may make, the     *)
(* texts it may answer with, the faults of the model call, and what the    *)
(* network does to a fetch.                                                *)
(***************************************************************************)
Call(name, args) == [name |-> name, args |-> args]

UnknownCall == Call("does_not_exist", EmptyObject)
InheritedCall == Call("constructor", EmptyObject)
CalcInvalidCall == Call("calculator", [a |-> Str("5"), b |-> Num(5), operation |-> Str("multiply")])
CalcThrowsCall == Call("calculator", [a |-> Num(9999), b |-> Num(5), operation |-> Str("multiply")])
CalcDivZeroCall == Call("calculator", [a |-> Num(5), b |-> Num(0), operation |-> Str("divide")])
CalcOkCall == Call("calculator", [a |-> Num(5), b |-> Num(5), operation |-> Str("multiply")])
CalcZeroByZeroCall == Call("calculator", [a |-> Num(0), b |-> Num(0), operation |-> Str("divide")])
CalcThrowsDivZeroCall ==
    Call("calculator", [a |-> Num(9999), b |-> Num(0), operation |-> Str("divide")])
CalcAddCall == Call("calculator", [a |-> Num(7), b |-> Num(2), operation |-> Str("add")])
CalcSubtractCall == Call("calculator", [a |-> Num(2), b |-> Num(7), operation |-> Str("subtract")])
CalcDivideCall == Call("calculator", [a |-> Num(0), b |-> Num(5), operation |-> Str("divide")])
WebCall == Call("web_fetch_mock", [url |-> Str("https://example.com")])
WebInvalidCall == Call("web_fetch_mock", [url |-> Str("example.com"), timeout_ms |-> Num(50)])
CandidateStringifiedCall ==
    Call("db_query_candidates",
         [table |-> Str("candidates"), columns |-> Arr(<<Str("name")>>),
          where |-> Str(WhereSarahText)])
CandidateBrokenCall ==
    Call("db_query_candidates",
         [table |-> Str("candidates"), columns |-> Arr(<<Str("name")>>),
          where |-> Str(BrokenText)])
CandidateFoundCall ==
    Call("db_query_candidates",
         [table |-> Str("candidates"), columns |-> Arr(<<Str("name"), Str("email")>>),
          where |-> Obj([field |-> Str("name"), operator |-> Str("="),
                         value |-> Str("Alice Johnson")]),
          limit |-> Num(1)])
CandidateLongValueCall ==
    Call("db_query_candidates",
         [table |-> Str("candidates"), columns |-> Arr(<<Str("id")>>),
          where |-> Obj([field |-> Str("email"), operator |-> Str("="),
                         value |-> Str("sarah.connor@example.com")])])
\* a calculation whose arguments have a key named __proto__ beside them
ProtoKeyCall ==
    Call("calculator",
         (ProtoKey :> Str("x")) @@ [a |-> Num(5), b |-> Num(5), operation |-> Str("multiply")])
\* a name no tool has, 90 characters long
LongNameCall ==
    Call("lookup_candidate_by_email_address_and_return_every_matching_opportunity_with_its_stage_now",
         EmptyObject)
\* a where clause sent as a JSON text one of whose values is a JSON text
NestedStringifiedCall ==
    Call("db_query_candidates",
         [table |-> Str("candidates"), columns |-> Arr(<<Str("name")>>),
          where |-> Str(NestedText)])
OpportunityFoundCall ==
    Call("db_query_opportunities",
         [table |-> Str("opportunities"), columns |-> Arr(<<Str("name")>>),
          where |-> Obj([field |-> Str("stage"), operator |-> Str("="),
                         value |-> Str("onsite")])])
OpportunityNotFoundCall ==
    Call("db_query_opportunities",
         [table |-> Str("opportunities"), columns |-> Arr(<<Str("name")>>),
          where |-> Obj([field |-> Str("name"), operator |-> Str("="),
                         value |-> Str("Wendys")])])
OpportunityWrongTableCall ==
    Call("db_query_opportunities",
         [table |-> Str("candidates"), columns |-> Arr(<<Str("name")>>),
          where |-> Obj([field |-> Str("stage"), operator |-> Str("="),
                         value |-> Str("onsite")])])

\* a candidates query by name with its columns and its where clause as given
CandidateQuery(columns, where) ==
    Call("db_query_candidates",
         [table |-> Str("candidates"), columns |-> columns, where |-> where])

\* queries with a nested field sent as its JSON text, each beside the same
\* query with that field sent as the structured value
StringifiedPairs ==
    {[sent |-> CandidateStringifiedCall,
      structured |-> CandidateQuery(Arr(<<Str("name")>>), Obj(WhereSarah))],
     [sent |-> CandidateQuery(Str(ColumnsText), Obj(WhereSarah)),
      structured |-> CandidateQuery(Arr(<<Str("name")>>), Obj(WhereSarah))],
     [sent |-> CandidateQuery(Arr(<<Str("name")>>), Str(WhereJsonValueText)),
      structured |-> CandidateQuery(Arr(<<Str("name")>>), Obj(WhereJsonValue))],
     [sent |-> CandidateQuery(Str(ColumnsText), Obj(WhereJsonValue)),
      structured |-> CandidateQuery(Arr(<<Str("name")>>), Obj(WhereJsonValue))]}

\* the requests of a run of the loop
LoopCalls ==
    {UnknownCall, InheritedCall, CalcInvalidCall, CalcOkCall, WebCall}
\* the requests handed to the Gate directly
GateCalls ==
    LoopCalls \cup
    {Call("toString", EmptyObject), CalcThrowsCall, CalcDivZeroCall, WebInvalidCall,
     CandidateStringifiedCall, CandidateBrokenCall, CandidateFoundCall,
     CandidateLongValueCall, OpportunityFoundCall, OpportunityWrongTableCall,
     NestedStringifiedCall, LongNameCall, ProtoKeyCall, OpportunityNotFoundCall,
     CalcZeroByZeroCall, CalcThrowsDivZeroCall, CalcAddCall, CalcSubtractCall,
     CalcDivideCall}
    \cup {pair.sent : pair \in StringifiedPairs}

Batches(calls) == UNION {[1..n -> calls] : n \in 1..MaxCalls}

\* the requests of a run under a varying step budget: a call that fails
\* lookup, one whose lookup throws, one that is executed, one whose outcome
\* is the network's, and a batch of two
BudgetBatches ==
    {<<UnknownCall>>, <<InheritedCall>>, <<CalcOkCall>>, <<WebCall>>,
     <<CalcDivZeroCall, CalcOkCall>>}

Answers == {"", "The answer is 25."}

\* the replies of the model: requests without text, text without requests
\* (the empty reply among them), and text that comes with a request
Replies(batches) ==
    {[content |-> "", calls |-> batch] : batch \in batches}
    \cup {[content |-> content, calls |-> <<>>] : content \in Answers}
    \cup {[content |-> "Let me calculate that.", calls |-> <<CalcOkCall>>]}
ModelFaults == {Error("Error", "Connection error.")}

\* what the network does to a fetch: the loop sees a refused page and a timeout
LoopNet == {[kind |-> "response", status |-> 404, length |-> 0], [kind |-> "abort"]}
GateNet ==
    LoopNet \cup {[kind |-> "response", status |-> 200, length |-> 2000],
                  [kind |-> "failed", message |-> "fetch failed"]}

UserQueries == {"What is 5 times 5?"}
BudgetQueries == {"What is 5 times 5?", "Hello, how are you?"}

(***************************************************************************)
(* The nodes as functions of the state they are given.                     *)
(***************************************************************************)
State ==
    [messages |-> messages, userQuery |-> userQuery, tool_calls |-> tool_calls,
     step |-> step, response |-> response, maxStep |-> maxStep, trace |-> trace]

\* faulty variant: the budget test is strict
BudgetReachedStrict(st) == st.step > st.maxStep

\* the test that opens getToolIntent: the budget is used up
BudgetReached(st) == st.step >= st.maxStep

\* the assistant message of a model decision; the model gives each requested
\* call an identifier of its own
AIMessage(decision, firstId) ==
    [type |-> "ai", content |-> decision.content,
     tool_calls |-> [i \in 1..Len(decision.calls) |->
                        [id |-> "toolu_" \o ToString(firstId + i),
                         name |-> decision.calls[i].name,
                         args |-> decision.calls[i].args]]]

NoMessage == [type |-> "ai", content |-> "", tool_calls |-> <<>>]

\* faulty variant: a reply with requests also has its text taken as the answer
getToolIntentAnswersWithRequests(st, aiMessage) ==
    IF BudgetReached(st)
    THEN [response |-> Some("Max attempts reached without final answer"),
          trace |-> <<LLMTraceEntry(st.step, "max_attempts")>>]
    ELSE IF Len(aiMessage.tool_calls) > 0
    THEN [messages |-> <<aiMessage>>,
          tool_calls |-> Some(aiMessage.tool_calls),
          response |-> Some(aiMessage.content),
          trace |-> <<ToolUseTraceEntry(st.step,
                        [i \in 1..Len(aiMessage.tool_calls) |-> aiMessage.tool_calls[i].name])>>]
    ELSE [response |-> Some(aiMessage.content),
          tool_calls |-> None,
          trace |-> <<LLMTraceEntry(st.step, "final_answer")>>]

\* faulty variant: at the budget the update also appends an assistant message
getToolIntentAppendsAtBudget(st, aiMessage) ==
    IF BudgetReached(st)
    THEN [messages |-> <<aiMessage>>,
          response |-> Some("Max attempts reached without final answer"),
          trace |-> <<LLMTraceEntry(st.step, "max_attempts")>>]
    ELSE IF Len(aiMessage.tool_calls) > 0
    THEN [messages |-> <<aiMessage>>,
          tool_calls |-> Some(aiMessage.tool_calls),
          trace |-> <<ToolUseTraceEntry(st.step,
                        [i \in 1..Len(aiMessage.tool_calls) |-> aiMessage.tool_calls[i].name])>>]
    ELSE [response |-> Some(aiMessage.content),
          tool_calls |-> None,
          trace |-> <<LLMTraceEntry(st.step, "final_answer")>>]

\* the update getToolIntent returns; aiMessage is read only below the budget
getToolIntent(st, aiMessage) ==
    IF BudgetReached(st)
    THEN [response |-> Some("Max attempts reached without final answer"),
          trace |-> <<LLMTraceEntry(st.step, "max_attempts")>>]
    ELSE IF Len(aiMessage.tool_calls) > 0
    THEN [messages |-> <<aiMessage>>,
          tool_calls |-> Some(aiMessage.tool_calls),
          trace |-> <<ToolUseTraceEntry(st.step,
                        [i \in 1..Len(aiMessage.tool_calls) |-> aiMessage.tool_calls[i].name])>>]
    ELSE [response |-> Some(aiMessage.content),
          tool_calls |-> None,
          trace |-> <<LLMTraceEntry(st.step, "final_answer")>>]

\* faulty variant: the batch is gone through from its last call to its first
RequestedCallsReversed(st) ==
    IF st.tool_calls.some
    THEN [i \in 1..Len(st.tool_calls.v) |-> st.tool_calls.v[Len(st.tool_calls.v) + 1 - i]]
    ELSE <<>>

\* state.tool_calls ?? []
RequestedCalls(st) == IF st.tool_calls.some THEN st.tool_calls.v ELSE <<>>

\* faulty variant: the step counter counts calls, not Gate passes
GateUpdatePerCall(st, toolMessages_, traceEntries_) ==
    [messages |-> toolMessages_, tool_calls |-> None,
     step |-> st.step + Len(toolMessages_), trace |-> traceEntries_]

\* faulty variant: the Gate returns its trace entries but not its messages
GateUpdateWithoutMessages(st, toolMessages_, traceEntries_) ==
    [messages |-> <<>>, tool_calls |-> None, step |-> st.step + 1,
     trace |-> traceEntries_]

\* the update verifyAndExecuteTool returns once its loop is over
\* faulty variant: the return leaves the requests in the state
GateUpdateKeepsRequests(st, toolMessages_, traceEntries_) ==
    [messages |-> toolMessages_, step |-> st.step + 1, trace |-> traceEntries_]

GateUpdate(st, toolMessages_, traceEntries_) ==
    [messages |-> toolMessages_, tool_calls |-> None, step |-> st.step + 1,
     trace |-> traceEntries_]

\* JavaScript truthiness of an optional string
Truthy(optional) == optional.some /\ optional.v # ""

\* faulty variant: a reply with neither text nor requests is sent back for
\* another classification
routeAfterClassificationRetriesEmpty(st) ==
    IF Truthy(st.response) THEN END
    ELSE IF st.step >= st.maxStep THEN END
    ELSE IF Len(RequestedCalls(st)) > 0 THEN "verifyAndExecuteToolIntent"
    ELSE "classifyTool"

routeAfterClassification(st) ==
    IF Truthy(st.response) THEN END
    ELSE IF st.step >= st.maxStep THEN END
    ELSE IF Len(RequestedCalls(st)) > 0 THEN "verifyAndExecuteToolIntent"
    ELSE END

(***************************************************************************)
(* The channels of AgentStateSchema: messages and trace reduce an update   *)
(* by concatenation, every other channel keeps the last value written, and *)
(* a key the update does not hold leaves its channel as it is.             *)
(***************************************************************************)
\* faulty variant: the trace channel keeps the last value written
reducerReplaces(prev, next) == next

reducer(prev, next) == prev \o next

MessagesValue(prev, next) == prev \o next

Written(update, key, old) == IF key \in DOMAIN update THEN update[key] ELSE old

ApplyUpdate(update) ==
    /\ messages' = (IF "messages" \in DOMAIN update
                    THEN MessagesValue(messages, update.messages) ELSE messages)
    /\ trace' = (IF "trace" \in DOMAIN update
                 THEN reducer(trace, update.trace) ELSE trace)
    /\ tool_calls' = Written(update, "tool_calls", tool_calls)
    /\ step' = Written(update, "step", step)
    /\ response' = Written(update, "response", response)
    /\ returned' = (IF "trace" \in DOMAIN update THEN returned \o update.trace ELSE returned)
    /\ UNCHANGED <<userQuery, maxStep>>

(***************************************************************************)
(* The response the entry point assembles.                                 *)
(***************************************************************************)
\* Array.from(new Set(names)): the names without repetitions, in order of
\* first occurrence
RECURSIVE Unique(_)
Unique(names) ==
    IF names = <<>> THEN <<>>
    ELSE LET rest == Unique(SubSeq(names, 1, Len(names) - 1))
             last == names[Len(names)]
         IN  IF last \in Range(rest) THEN rest ELSE Append(rest, last)

IsTool(entry) == entry.type = "tool"
IsDecision(entry, decision) == entry.type = "llm" /\ entry.data.decision = decision

\* faulty variant: only the entries of calls that passed validation count
ToolsUsedExecutedOnly(trace_) ==
    LET IsExecuted(entry) == IsTool(entry) /\ entry.data.inputValid
        entries == SelectSeq(trace_, IsExecuted)
    IN  Unique([i \in 1..Len(entries) |-> entries[i].data.toolName])

ToolsUsed(trace_) ==
    LET entries == SelectSeq(trace_, IsTool)
    IN  Unique([i \in 1..Len(entries) |-> entries[i].data.toolName])

\* faulty variant: the test of the decision is left out
HitMaxAttemptsAnyDecision(trace_) ==
    \E i \in 1..Len(trace_) : trace_[i].type = "llm"

HitMaxAttempts(trace_) ==
    \E i \in 1..Len(trace_) : IsDecision(trace_[i], "max_attempts")

\* faulty variant: an empty response is replaced by a text of the entry point
AssembleFillsEmpty(result) ==
    IF HitMaxAttempts(result.trace)
    THEN [status |-> "max_attempts_reached",
          content |-> IF Truthy(result.response) THEN result.response.v
                      ELSE "Max attempts reached without final answer",
          metadata |-> [userQuery |-> result.userQuery, totalSteps |-> result.step,
                        maxSteps |-> result.maxStep,
                        toolsUsed |-> ToolsUsed(result.trace)],
          trace |-> result.trace]
    ELSE [status |-> "success",
          content |-> IF Truthy(result.response) THEN result.response.v
                      ELSE "No answer",
          metadata |-> [userQuery |-> result.userQuery, totalSteps |-> result.step,
                        toolsUsed |-> ToolsUsed(result.trace)],
          trace |-> result.trace]

\* faulty variant: totalSteps counts the Gate passes, not the counter
AssembleCountsPasses(result) ==
    IF HitMaxAttempts(result.trace)
    THEN [status |-> "max_attempts_reached",
          content |-> IF result.response.some THEN result.response.v
                      ELSE "Max attempts reached without final answer",
          metadata |-> [userQuery |-> result.userQuery, totalSteps |-> result.step - 1,
                        maxSteps |-> result.maxStep,
                        toolsUsed |-> ToolsUsed(result.trace)],
          trace |-> result.trace]
    ELSE [status |-> "success",
          content |-> IF result.response.some THEN result.response.v ELSE "",
          metadata |-> [userQuery |-> result.userQuery, totalSteps |-> result.step - 1,
                        toolsUsed |-> ToolsUsed(result.trace)],
          trace |-> result.trace]

\* the AgentResponse of the try block, from the final state of the graph
Assemble(result) ==
    IF HitMaxAttempts(result.trace)
    THEN [status |-> "max_attempts_reached",
          content |-> IF result.response.some THEN result.response.v
                      ELSE "Max attempts reached without final answer",
          metadata |-> [userQuery |-> result.userQuery, totalSteps |-> result.step,
                        maxSteps |-> result.maxStep,
                        toolsUsed |-> ToolsUsed(result.trace)],
          trace |-> result.trace]
    ELSE [status |-> "success",
          content |-> IF result.response.some THEN result.response.v ELSE "",
          metadata |-> [userQuery |-> result.userQuery, totalSteps |-> result.step,
                        toolsUsed |-> ToolsUsed(result.trace)],
          trace |-> result.trace]

\* faulty variant: a catch block whose response is none of the three variants
ErrorResponseUntagged(query, err) ==
    [status |-> "failed",
     content |-> "An error occurred while processing your request",
     error |-> [type |-> err.name, message |-> err.message],
     metadata |-> [userQuery |-> query, totalSteps |-> 0, toolsUsed |-> <<>>],
     trace |-> <<>>]

\* faulty variant: the catch block takes every fault for a value that is
\* not an Error
ErrorResponseUnknown(query, err) ==
    [status |-> "error",
     content |-> "An error occurred while processing your request",
     error |-> [type |-> "UnknownError", message |-> "Unknown error"],
     metadata |-> [userQuery |-> query, totalSteps |-> 0, toolsUsed |-> <<>>],
     trace |-> <<>>]

\* the AgentResponse of the catch block
ErrorResponse(query, err) ==
    [status |-> "error",
     content |-> "An error occurred while processing your request",
     error |-> [type |-> err.name, message |-> err.message],
     metadata |-> [userQuery |-> query, totalSteps |-> 0, toolsUsed |-> <<>>],
     trace |-> <<>>]

(***************************************************************************)
(* Initial states.                                                         *)
(***************************************************************************)
NoRun ==
    /\ callIndex = 1 /\ toolMessages = <<>> /\ traceEntries = <<>>
    /\ thrown = None /\ agentResponse = None
    /\ issued = 0 /\ executorCalls = <<>> /\ modelCalls = 0 /\ gatePasses = 0
    /\ returned = <<>>
    /\ lastAiMessage = None

\* initialState of getFormattedToolOrAnswerToUserInput, for the queries and
\* budgets given
InitialState(queries, budgets) ==
    /\ userQuery \in queries
    /\ messages = <<HumanMessage(userQuery)>>
    /\ step = 1
    /\ maxStep \in budgets
    /\ trace = <<>>
    /\ tool_calls = None
    /\ response = None
    /\ pc = "classifyTool"
    /\ NoRun

\* one call of the entry point, and no other in progress
OneQuery == active = 1 /\ parked = None

Init == InitialState(UserQueries, {EntryMaxStep}) /\ OneQuery

InitAnyMaxStep == InitialState(BudgetQueries, 0..MaxStepBound) /\ OneQuery

\* the state the test file builds (bootstrapState) and hands to
\* verifyAndExecuteTool: a batch of calls with identifiers "1", "2", ...
InitGate ==
    /\ userQuery = "What is 5 times 5?"
    /\ messages = <<HumanMessage(userQuery)>>
    /\ step = 1
    /\ maxStep = EntryMaxStep
    /\ trace = <<>>
    /\ \E batch \in Batches(GateCalls) \cup {<<>>} :
          tool_calls = Some([i \in 1..Len(batch) |->
                                [id |-> ToString(i), name |-> batch[i].name,
                                 args |-> batch[i].args]])
    /\ response = None
    /\ pc = "verifyAndExecuteToolIntent"
    /\ NoRun
    /\ OneQuery

(***************************************************************************)
(* Actions.                                                                *)
(***************************************************************************)
\* classifyTool at or over the budget: getToolIntent returns before it
\* reaches the model
ShortCircuit ==
    /\ pc = "classifyTool"
    /\ BudgetReached(State)
    /\ ApplyUpdate(getToolIntent(State, NoMessage))
    /\ pc' = "route"
    /\ UNCHANGED <<locals, thrown, agentResponse, issued, executorCalls, modelCalls,
                   gatePasses, lastAiMessage>>
    /\ UNCHANGED invocations

\* classifyTool below the budget: the model is invoked and decides
Classify(replies) ==
    /\ pc = "classifyTool"
    /\ ~BudgetReached(State)
    /\ \E decision \in replies :
          /\ ApplyUpdate(getToolIntent(State, AIMessage(decision, issued)))
          /\ lastAiMessage' = Some(AIMessage(decision, issued))
          /\ issued' = issued + Len(decision.calls)
    /\ modelCalls' = modelCalls + 1
    /\ pc' = "route"
    /\ UNCHANGED <<locals, thrown, agentResponse, executorCalls, gatePasses>>
    /\ UNCHANGED invocations

\* classifyTool below the budget: the model call fails, and the exception
\* leaves the node and the graph
ModelFails ==
    /\ pc = "classifyTool"
    /\ ~BudgetReached(State)
    /\ \E err \in ModelFaults : thrown' = Some(err)
    /\ modelCalls' = modelCalls + 1
    /\ pc' = "catch"
    /\ UNCHANGED <<state, locals, agentResponse, issued, executorCalls, gatePasses,
                   returned, lastAiMessage>>
    /\ UNCHANGED invocations

\* the conditional edge after classifyTool; entering the Gate starts a pass
\* with empty toolMessages and traceEntries
Route ==
    /\ pc = "route"
    /\ pc' = routeAfterClassification(State)
    /\ IF pc' = END
       THEN UNCHANGED <<locals, gatePasses>>
       ELSE /\ callIndex' = 1 /\ toolMessages' = <<>> /\ traceEntries' = <<>>
            /\ gatePasses' = gatePasses + 1
    /\ UNCHANGED <<state, thrown, agentResponse, issued, executorCalls, modelCalls,
                   returned, lastAiMessage>>
    /\ UNCHANGED invocations

NoNet == [kind |-> "none"]

\* one iteration of the loop of verifyAndExecuteTool
GateCall(nets) ==
    /\ pc = "verifyAndExecuteToolIntent"
    /\ callIndex <= Len(RequestedCalls(State))
    /\ LET toolCall == RequestedCalls(State)[callIndex] IN
       \E net \in (IF toolCall.name = "web_fetch_mock" THEN nets ELSE {NoNet}) :
          LET done == GateIteration(step, toolCall, net) IN
          IF done.threw
          THEN /\ thrown' = Some(done.err)
               /\ pc' = "catch"
               /\ UNCHANGED <<locals, executorCalls>>
          ELSE /\ toolMessages' = Append(toolMessages, done.message)
               /\ traceEntries' = Append(traceEntries, done.entry)
               /\ callIndex' = callIndex + 1
               /\ executorCalls' =
                    (IF done.invoked
                     THEN Append(executorCalls,
                                 [toolName |-> toolCall.name, toolCallId |-> toolCall.id,
                                  net |-> net])
                     ELSE executorCalls)
               /\ UNCHANGED <<pc, thrown>>
    /\ UNCHANGED <<state, agentResponse, issued, modelCalls, gatePasses, returned,
                   lastAiMessage>>
    /\ UNCHANGED invocations

\* the return of verifyAndExecuteTool, and the edge back to classifyTool
GateReturn ==
    /\ pc = "verifyAndExecuteToolIntent"
    /\ callIndex > Len(RequestedCalls(State))
    /\ ApplyUpdate(GateUpdate(State, toolMessages, traceEntries))
    /\ pc' = "classifyTool"
    /\ UNCHANGED <<locals, thrown, agentResponse, issued, executorCalls, modelCalls,
                   gatePasses, lastAiMessage>>
    /\ UNCHANGED invocations

\* app.invoke resolved: the try block returns the response
Respond ==
    /\ pc = END
    /\ agentResponse' = Some(Assemble(State))
    /\ pc' = "returned"
    /\ UNCHANGED <<state, locals, thrown, observers>>
    /\ UNCHANGED invocations

\* app.invoke rejected: the catch block returns the error response
Catch ==
    /\ pc = "catch"
    /\ agentResponse' = Some(ErrorResponse(userQuery, thrown.v))
    /\ pc' = "returned"
    /\ UNCHANGED <<state, locals, thrown, observers>>
    /\ UNCHANGED invocations

(***************************************************************************)
(* Specifications: a run of the entry point as the program makes it, a run *)
(* of the entry point over every step budget, and the Gate called directly *)
(* on a state, as the test file calls it.                                  *)
(***************************************************************************)
Next ==
    \/ ShortCircuit
    \/ Classify(Replies(Batches(LoopCalls)))
    \/ ModelFails
    \/ Route
    \/ GateCall(LoopNet)
    \/ GateReturn
    \/ Respond
    \/ Catch

Spec == Init /\ [][Next]_vars

NextAnyMaxStep ==
    \/ ShortCircuit
    \/ Classify(Replies(BudgetBatches))
    \/ ModelFails
    \/ Route
    \/ GateCall(LoopNet)
    \/ GateReturn
    \/ Respond
    \/ Catch

\* the runtime runs every node to its end: no step that can be taken waits forever
SpecAnyMaxStep == InitAnyMaxStep /\ [][NextAnyMaxStep]_vars /\ WF_vars(NextAnyMaxStep)

NextGate ==
    \/ GateCall(GateNet)
    \/ GateReturn

SpecGate == InitGate /\ [][NextGate]_vars

(***************************************************************************)
(* Two calls of the entry point in progress at once.  JavaScript runs one  *)
(* of them at a time and may change over at an await; each call made its   *)
(* own initialState, graph and compiled app, and the module has no         *)
(* variable that a node writes.                                            *)
(***************************************************************************)
\* everything the running call holds
QueryState ==
    [messages |-> messages,
     userQuery |-> userQuery,
     tool_calls |-> tool_calls,
     step |-> step,
     response |-> response,
     maxStep |-> maxStep,
     trace |-> trace,
     pc |-> pc,
     callIndex |-> callIndex,
     toolMessages |-> toolMessages,
     traceEntries |-> traceEntries,
     thrown |-> thrown,
     agentResponse |-> agentResponse,
     issued |-> issued,
     executorCalls |-> executorCalls,
     modelCalls |-> modelCalls,
     gatePasses |-> gatePasses,
     returned |-> returned,
     lastAiMessage |-> lastAiMessage]

\* faulty variant: the trace is one array of the module, which the nodes of
\* every call append to
ResumedWithModuleTrace(suspended, running) == [suspended EXCEPT !.trace = running.trace]

\* what a call goes on with after an await, given what it held when it was
\* suspended and what the call that ran meanwhile holds
Resumed(suspended, running) == suspended

SecondQuery == "Hello, how are you?"

\* the requests of two runs in progress at once
TwoQueryBatches == {<<CalcOkCall>>, <<WebCall>>, <<InheritedCall>>}

InitTwoQueries ==
    /\ InitialState(UserQueries, {EntryMaxStep})
    /\ active = 1
    /\ parked = Some([messages |-> <<HumanMessage(SecondQuery)>>, userQuery |-> SecondQuery,
                      tool_calls |-> None, step |-> 1, response |-> None,
                      maxStep |-> EntryMaxStep, trace |-> <<>>, pc |-> "classifyTool",
                      callIndex |-> 1, toolMessages |-> <<>>, traceEntries |-> <<>>,
                      thrown |-> None, agentResponse |-> None, issued |-> 0,
                      executorCalls |-> <<>>, modelCalls |-> 0, gatePasses |-> 0,
                      returned |-> <<>>, lastAiMessage |-> None])

\* the running call waits and the other call, not yet finished, goes on
Switch ==
    /\ parked.some
    /\ parked.v.pc # "returned"
    /\ LET resumed == Resumed(parked.v, QueryState) IN
          /\ messages' = resumed.messages
          /\ userQuery' = resumed.userQuery
          /\ tool_calls' = resumed.tool_calls
          /\ step' = resumed.step
          /\ response' = resumed.response
          /\ maxStep' = resumed.maxStep
          /\ trace' = resumed.trace
          /\ pc' = resumed.pc
          /\ callIndex' = resumed.callIndex
          /\ toolMessages' = resumed.toolMessages
          /\ traceEntries' = resumed.traceEntries
          /\ thrown' = resumed.thrown
          /\ agentResponse' = resumed.agentResponse
          /\ issued' = resumed.issued
          /\ executorCalls' = resumed.executorCalls
          /\ modelCalls' = resumed.modelCalls
          /\ gatePasses' = resumed.gatePasses
          /\ returned' = resumed.returned
          /\ lastAiMessage' = resumed.lastAiMessage
    /\ parked' = Some(QueryState)
    /\ active' = 3 - active

NextTwoQueries ==
    \/ ShortCircuit
    \/ Classify(Replies(TwoQueryBatches))
    \/ ModelFails
    \/ Route
    \/ GateCall(LoopNet)
    \/ GateReturn
    \/ Respond
    \/ Catch
    \/ Switch

SpecTwoQueries == InitTwoQueries /\ [][NextTwoQueries]_vars

(***************************************************************************)
(* Properties.                                                             *)
(***************************************************************************)
IsPrefix(s, t) == Len(s) <= Len(t) /\ SubSeq(t, 1, Len(s)) = s
Last(s) == s[Len(s)]

\* the Gate is at a requested call: the next step of the run is one
\* iteration of its loop, for CurrentCall
AtCall == pc = "verifyAndExecuteToolIntent" /\ callIndex <= Len(RequestedCalls(State))
CurrentCall == RequestedCalls(State)[callIndex]

\* the call names a registered tool and its normalized arguments pass that
\* tool's input schema
PassesValidation(call) ==
    /\ call.name \in ToolType
    /\ safeParse(call.name, parseStringifiedJsonFields(call.args)).success

\* the step pushes exactly one tool-result message, keyed to the call and
\* holding the serialized observation, and exactly one execution entry
PushesOne(call, observation) ==
    /\ toolMessages' = Append(toolMessages,
                              ToolMessage(call.id, JSONstringify(observation)))
    /\ Len(traceEntries') = Len(traceEntries) + 1
    /\ IsPrefix(traceEntries, traceEntries')
    /\ Last(traceEntries').type = "tool"
    /\ Last(traceEntries').data.toolCallId = call.id
    /\ Last(traceEntries').data.toolName = call.name
    /\ Last(traceEntries').data.step = step
    /\ Last(traceEntries').data.observation = observation

GoesOnToNextCall == callIndex' = callIndex + 1 /\ pc' = pc /\ thrown' = thrown

\* C1: the executor call log grows only in a Gate iteration for a call that
\* names a registered tool and whose normalized arguments pass that tool's
\* input schema, and then by that call alone; an iteration for any other call
\* leaves the log as it is.
C1_ExecutorOnlyAfterValidation ==
    [][executorCalls' # executorCalls =>
          /\ AtCall
          /\ PassesValidation(CurrentCall)
          /\ Len(executorCalls') = Len(executorCalls) + 1
          /\ IsPrefix(executorCalls, executorCalls')
          /\ Last(executorCalls').toolName = CurrentCall.name
          /\ Last(executorCalls').toolCallId = CurrentCall.id]_vars

\* a batch whose first call failed validation and was not executed and whose
\* second call passed and was executed
C1_Witness ==
    /\ pc = "verifyAndExecuteToolIntent"
    /\ callIndex = 3
    /\ RequestedCalls(State)[1].name \in ToolType
    /\ ~PassesValidation(RequestedCalls(State)[1])
    /\ PassesValidation(RequestedCalls(State)[2])
    /\ Len(executorCalls) = 1
    /\ executorCalls[1].toolName = RequestedCalls(State)[2].name
    /\ executorCalls[1].toolCallId = "2"

\* C2: every run of the entry point, for every query and step budget and
\* whatever the model and the tools do, comes to return; what it returns is
\* one AgentResponse with status success, max_attempts_reached or error, set
\* once and never replaced, and no exception is left in flight.
C2_RunReturnsOneResponse ==
    /\ <>(pc = "returned")
    /\ [](pc = "returned" <=> agentResponse.some)
    /\ [](agentResponse.some =>
            agentResponse.v.status \in {"success", "max_attempts_reached", "error"})
    /\ [][agentResponse.some => agentResponse' = agentResponse /\ pc' = pc]_vars

\* a run whose model call failed after a Gate pass, returned as the error variant
C2_Witness ==
    /\ pc = "returned"
    /\ gatePasses = 1
    /\ thrown.some /\ thrown.v \in ModelFaults
    /\ agentResponse.v.status = "error"

\* C3: a run with maxStep = N starts at most N Gate passes, and a run that
\* returns with the budget reached (step >= N) returns max_attempts_reached
\* with the short-circuit text.
C3_StepBudget ==
    /\ gatePasses <= maxStep
    /\ (pc = "returned" /\ step >= maxStep =>
            /\ agentResponse.v.status = "max_attempts_reached"
            /\ agentResponse.v.content = "Max attempts reached without final answer")

\* a run with budget 3 that used it up in two Gate passes
C3_Witness ==
    /\ pc = "returned"
    /\ maxStep = 3 /\ step = 3 /\ gatePasses = 2
    /\ agentResponse.v.status = "max_attempts_reached"

\* C4: a Gate iteration for a call whose name is none of the four registered
\* tool names pushes the tool-result message {success: false, error_type:
\* "invalid_input", error_message: "Unknown tool call: <name>"} and a trace
\* entry with inputValid false, and goes on to the next call.
C4_UnknownNameRejected ==
    [][AtCall /\ CurrentCall.name \notin ToolType =>
          /\ PushesOne(CurrentCall,
                       FailureObservation("invalid_input",
                                          "Unknown tool call: " \o CurrentCall.name))
          /\ Last(traceEntries').data.inputValid = FALSE
          /\ GoesOnToNextCall]_vars

ExecutorFault(toolResult) == toolResult.threw \/ toolResult.value.success = FALSE

FaultTypes == {"runtime_error", "invalid_calculation", "not_found", "http_error"}

\* C6: a Gate iteration for a validated call pushes exactly one tool-result
\* message and one trace entry; when the executor throws the observation is
\* {success: false, error_type: "runtime_error"} with the exception's message,
\* when it returns a failure the observation is that failure, with a
\* tool-specific error type or runtime_error; either way the entry's success
\* flag is false and the Gate goes on to the next call.
C6_ExecutorFaultObserved ==
    [][AtCall /\ PassesValidation(CurrentCall) =>
          \E net \in (IF CurrentCall.name = "web_fetch_mock" THEN GateNet ELSE {NoNet}) :
             LET data == safeParse(CurrentCall.name,
                                   parseStringifiedJsonFields(CurrentCall.args)).data
                 toolResult == invoke(CurrentCall.name, data, net)
                 observation ==
                    IF toolResult.threw
                    THEN FailureObservation("runtime_error", toolResult.err.message)
                    ELSE toolResult.value
             IN  /\ PushesOne(CurrentCall, observation)
                 /\ GoesOnToNextCall
                 /\ Last(traceEntries').data.inputValid = TRUE
                 /\ ExecutorFault(toolResult) =>
                       /\ observation.success = FALSE
                       /\ observation.error_type \in FaultTypes
                       /\ Last(traceEntries').data.success = FALSE]_vars

\* a batch of an executor that threw and an executor that returned a domain
\* failure, each observed
C6_Witness ==
    /\ pc = "verifyAndExecuteToolIntent"
    /\ callIndex = 3
    /\ Len(toolMessages) = 2 /\ Len(traceEntries) = 2
    /\ traceEntries[1].data.inputValid /\ traceEntries[2].data.inputValid
    /\ traceEntries[1].data.observation = FailureObservation("runtime_error", "boom")
    /\ ~traceEntries[2].data.success
    /\ traceEntries[2].data.observation.error_type = "invalid_calculation"

\* C7: no exception leaves the Gate, and when its loop over a batch of k
\* calls is over it holds exactly k tool-result messages and k trace entries,
\* the i-th message carrying the i-th call's id.
C7_GateNeverRaises ==
    /\ ~thrown.some
    /\ (pc = "verifyAndExecuteToolIntent" /\ callIndex > Len(RequestedCalls(State)) =>
            /\ Len(toolMessages) = Len(RequestedCalls(State))
            /\ Len(traceEntries) = Len(RequestedCalls(State))
            /\ \A i \in 1..Len(toolMessages) :
                  toolMessages[i].tool_call_id = RequestedCalls(State)[i].id)

\* the return of a Gate pass
GateReturns == pc = "verifyAndExecuteToolIntent" /\ pc' = "classifyTool"

\* C8: the step counter starts at 1 and never decreases; every Gate pass,
\* whatever its batch holds and whether its calls fail lookup, validation or
\* execution, runs to its return, which adds exactly 1 to the counter; no
\* other step of the run (a Classification Step among them) changes it.
C8_StepCounter ==
    /\ step = 1
    /\ [][/\ step' >= step
          /\ (GateReturns => step' = step + 1)
          /\ (~GateReturns => step' = step)
          /\ (pc = "verifyAndExecuteToolIntent" =>
                pc' = "verifyAndExecuteToolIntent" \/ GateReturns)]_vars

\* after one Gate pass over two calls, one failing lookup and one failing
\* validation, the counter is 2
C8_Witness ==
    /\ pc = "classifyTool"
    /\ step = 2
    /\ Len(trace) = 3
    /\ ~trace[2].data.inputValid /\ ~trace[3].data.inputValid
    /\ trace[2].data.observation.error_type = "invalid_input"
    /\ trace[3].data.observation.error_type = "invalid_schema"

\* C9: every step extends the trace (the trace before is a prefix of the
\* trace after), the trace is at every moment the concatenation, in order of
\* execution, of the entries the nodes returned, and the trace of a success
\* or max_attempts_reached response is that concatenation.
C9_TraceAppendOnly ==
    /\ trace = <<>> /\ returned = <<>>
    /\ [][IsPrefix(trace, trace') /\ trace' = returned']_vars
    /\ [](agentResponse.some /\ agentResponse.v.status # "error" =>
            agentResponse.v.trace = returned)

\* a run returned after two Gate passes of two calls each: seven entries
C9_Witness ==
    /\ pc = "returned"
    /\ agentResponse.v.status = "max_attempts_reached"
    /\ Len(agentResponse.v.trace) = 7
    /\ Len(returned) = 7

\* the requests (message index, call index) for a call id among the
\* assistant messages before position i
RequestsBefore(i, id) ==
    {jk \in (1..(i - 1)) \X (1..MaxCalls) :
        /\ messages[jk[1]].type = "ai"
        /\ jk[2] <= Len(messages[jk[1]].tool_calls)
        /\ messages[jk[1]].tool_calls[jk[2]].id = id}

\* C10: in the conversation every tool-result message has exactly one
\* assistant tool-call request before it with the same call id, and every
\* step extends the conversation (the conversation before is a prefix of the
\* conversation after).
C10_ToolResultsAnswerRequests ==
    /\ [](\A i \in 1..Len(messages) :
            messages[i].type = "tool" =>
                Cardinality(RequestsBefore(i, messages[i].tool_call_id)) = 1)
    /\ [][IsPrefix(messages, messages')]_vars

\* a conversation of two requests of two calls each and their four results
C10_Witness ==
    /\ pc = "classifyTool"
    /\ Len(messages) = 7
    /\ messages[2].type = "ai" /\ messages[5].type = "ai"
    /\ messages[7].type = "tool" /\ messages[7].tool_call_id = messages[5].tool_calls[2].id

\* the k-th request of the assistant message at position j has its
\* tool-result message later in the conversation
Answered(j, k) ==
    \E i \in (j + 1)..Len(messages) :
        /\ messages[i].type = "tool"
        /\ messages[i].tool_call_id = messages[j].tool_calls[k].id

AllRequestsAnswered ==
    \A j \in 1..Len(messages) :
        messages[j].type = "ai" =>
            \A k \in 1..Len(messages[j].tool_calls) : Answered(j, k)

\* C11: whenever the model is invoked (a classification below the budget,
\* whether the model replies or fails), the conversation it is given holds,
\* for every tool-call request of every assistant message, the tool-result
\* message of that call after the request.
C11_ResultsBeforeNextClassification ==
    [][modelCalls' # modelCalls => AllRequestsAnswered]_vars

\* the model invoked a second time, after a Gate pass over two calls
C11_Witness ==
    /\ modelCalls = 2
    /\ pc = "route"
    /\ Len(messages) >= 4
    /\ messages[2].type = "ai" /\ Len(messages[2].tool_calls) = 2
    /\ messages[3].type = "tool" /\ messages[4].type = "tool"

ShortCircuitText == "Max attempts reached without final answer"

ModelFaulted == thrown.some /\ thrown.v \in ModelFaults

\* C13: a step in which the model call fails leaves the graph for the catch
\* block, at whatever classification of the run it happens; the run then
\* returns the error variant, whose error holds the fault's name and message,
\* with totalSteps 0, no toolsUsed and an empty trace, whatever the trace and
\* the step counter of the run had come to.
C13_ModelFaultIsErrorVariant ==
    /\ [][modelCalls' # modelCalls /\ thrown'.some =>
            pc' = "catch" /\ thrown'.v \in ModelFaults]_vars
    /\ [](ModelFaulted =>
            /\ pc \in {"catch", "returned"}
            /\ (pc = "returned" =>
                  /\ agentResponse.v.status = "error"
                  /\ agentResponse.v.error = [type |-> thrown.v.name,
                                              message |-> thrown.v.message]
                  /\ agentResponse.v.metadata.totalSteps = 0
                  /\ agentResponse.v.metadata.toolsUsed = <<>>
                  /\ agentResponse.v.trace = <<>>))

\* the model failed at the second classification, after a Gate pass that
\* executed two tools: the response holds none of that
C13_Witness ==
    /\ pc = "returned"
    /\ ModelFaulted
    /\ modelCalls = 2 /\ step = 2
    /\ Len(executorCalls) = 2
    /\ Len(trace) = 3
    /\ agentResponse.v.trace = <<>>

\* C14: whatever the calls of a Gate pass do (unknown tool, schema failure,
\* executor exception, domain or network failure), the pass is left only by
\* its return to the Classification Step, and a response with status error
\* is returned only for a fault of the model call.
C14_ToolFailuresRecoveredLocally ==
    /\ [][pc = "verifyAndExecuteToolIntent" =>
            pc' \in {"verifyAndExecuteToolIntent", "classifyTool"}]_vars
    /\ [](agentResponse.some /\ agentResponse.v.status = "error" => ModelFaulted)

\* a run that returned success after a Gate pass both of whose calls failed
C14_Witness ==
    /\ pc = "returned"
    /\ agentResponse.v.status = "success"
    /\ Len(trace) = 4
    /\ trace[2].type = "tool" /\ ~trace[2].data.success
    /\ trace[3].type = "tool" /\ ~trace[3].data.success

\* C15: the input a schema-failure trace entry records is the normalized
\* argument mapping of its call, and normalizing it again gives the same
\* mapping: normalize(normalize(x)) = normalize(x).
C15_NormalizeIdempotent ==
    \A i \in 1..Len(traceEntries) :
        LET entry == traceEntries[i].data IN
        ~entry.inputValid /\ entry.toolName \in ToolType =>
            parseStringifiedJsonFields(entry.input) = entry.input

\* C16: for a call that sends a nested object or array field as its JSON
\* text, the Gate's validation of the normalized arguments gives the verdict
\* and the typed arguments that the tool's schema gives for the same mapping
\* with that field sent as the structured value.
C16_StringifiedValidatesAsStructured ==
    pc = "verifyAndExecuteToolIntent" =>
    \A i \in 1..Len(traceEntries) :
        \A pair \in StringifiedPairs :
            (/\ traceEntries[i].data.toolName = pair.sent.name
             /\ RequestedCalls(State)[i].args = pair.sent.args) =>
                LET direct == safeParse(pair.structured.name, pair.structured.args)
                IN  /\ traceEntries[i].data.inputValid = direct.success
                    /\ direct.success => traceEntries[i].data.input = direct.data

\* the where clause sent as a JSON text was validated and executed with the
\* typed arguments of the structured query
C16_Witness ==
    /\ pc = "verifyAndExecuteToolIntent"
    /\ Len(traceEntries) >= 1
    /\ RequestedCalls(State)[1] = [id |-> "1", name |-> CandidateStringifiedCall.name,
                                   args |-> CandidateStringifiedCall.args]
    /\ traceEntries[1].data.inputValid
    /\ traceEntries[1].data.input.where = Obj(WhereSarah)

MessageBound == 100

\* C17: every failure observation the Gate pushes, whatever branch made it
\* (unknown tool, schema failure, caught exception, failure the tool
\* returned), has an error_message of at most 100 characters.
C17_FailureMessageBounded ==
    \A i \in 1..Len(traceEntries) :
        LET observation == traceEntries[i].data.observation IN
        observation.success = FALSE => Len(observation.error_message) <= MessageBound

\* C18: a Classification Step taken with step >= maxStep does not invoke the
\* model; it sets the response to the short-circuit text and appends one
\* max_attempts decision entry, and leaves everything else as it was: no
\* assistant message is appended and no tool call is requested.
C18_ShortCircuitSkipsModel ==
    [][pc = "classifyTool" /\ step >= maxStep =>
          /\ modelCalls' = modelCalls
          /\ lastAiMessage' = lastAiMessage
          /\ response' = Some(ShortCircuitText)
          /\ trace' = Append(trace, [type |-> "llm",
                                     data |-> [step |-> step,
                                               decision |-> "max_attempts"]])
          /\ messages' = messages
          /\ tool_calls' = tool_calls /\ ~tool_calls'.some
          /\ step' = step]_vars

\* the short-circuit taken at step 2 of a run with budget 2, after one model
\* call and one Gate pass
C18_Witness ==
    /\ pc = "route"
    /\ maxStep = 2 /\ step = 2
    /\ modelCalls = 1 /\ gatePasses = 1
    /\ response = Some(ShortCircuitText)
    /\ trace[Len(trace)].data.decision = "max_attempts"

\* a Classification Step that returns
ClassificationReturns == pc = "classifyTool" /\ pc' = "route"

\* what the state holds after the step: tool-call requests, a response
ProducedRequests == tool_calls'.some /\ tool_calls'.v # <<>>
ProducedResponse == response'.some

\* C19: a Classification Step that returns appends exactly one trace entry, a
\* decision entry, and leaves either tool-call requests or a response, never
\* both and never neither: requests come with the assistant message that
\* holds them and a tool_use entry listing their names; a response is either
\* the model's reply (the model was invoked, final_answer entry) or the
\* short-circuit text (the model was not invoked, max_attempts entry).
C19_ExactlyOneOutcome ==
    [][ClassificationReturns =>
          /\ Len(trace') = Len(trace) + 1
          /\ IsPrefix(trace, trace')
          /\ Last(trace').type = "llm"
          /\ Last(trace').data.step = step
          /\ ProducedRequests # ProducedResponse
          /\ ProducedRequests =>
                /\ modelCalls' = modelCalls + 1
                /\ tool_calls'.v = lastAiMessage'.v.tool_calls
                /\ messages' = Append(messages, lastAiMessage'.v)
                /\ Last(trace').data.decision = "tool_use"
                /\ Last(trace').data.toolsCalled =
                      [i \in 1..Len(tool_calls'.v) |-> tool_calls'.v[i].name]
          /\ ProducedResponse =>
                /\ messages' = messages
                /\ IF modelCalls' = modelCalls
                   THEN /\ Last(trace').data.decision = "max_attempts"
                        /\ response' = Some(ShortCircuitText)
                   ELSE /\ Last(trace').data.decision = "final_answer"
                        /\ lastAiMessage'.v.tool_calls = <<>>
                        /\ response' = Some(lastAiMessage'.v.content)]_vars

\* the model replied with text and a request: the step left the request and
\* no response
C19_Witness ==
    /\ pc = "route"
    /\ lastAiMessage.some
    /\ lastAiMessage.v.content = "Let me calculate that."
    /\ tool_calls.some /\ Len(tool_calls.v) = 1
    /\ ~response.some
    /\ trace[Len(trace)].data.decision = "tool_use"

\* the last Classification Step gave a final answer (the empty one included)
\* or took the short-circuit
Decided ==
    /\ trace # <<>>
    /\ Last(trace).type = "llm"
    /\ Last(trace).data.decision \in {"final_answer", "max_attempts"}

\* C20: once a Classification Step has given a final answer, an empty
\* decision or the short-circuit, the router goes to END and the run to its
\* return: no step after it invokes the model, starts a Gate pass or executes
\* a tool, and step, conversation, trace and the other channels stay as they
\* are.
C20_TerminatedIsAbsorbing ==
    [][Decided =>
          /\ pc' \in {END, "returned"}
          /\ modelCalls' = modelCalls
          /\ gatePasses' = gatePasses
          /\ executorCalls' = executorCalls
          /\ state' = state]_vars

\* a run returned after an empty decision of the model at its second
\* classification
C20_Witness ==
    /\ pc = "returned"
    /\ Decided
    /\ modelCalls = 2
    /\ response = Some("")
    /\ agentResponse.v.status = "success"

\* the model's last reply held neither text nor tool-call requests
EmptyDecision ==
    /\ lastAiMessage.some
    /\ lastAiMessage.v.content = ""
    /\ lastAiMessage.v.tool_calls = <<>>

ToolEntries(entries) == SelectSeq(entries, IsTool)
EntriesOf(entries, id) ==
    {i \in 1..Len(entries) : IsTool(entries[i]) /\ entries[i].data.toolCallId = id}

\* C23: state.tool_calls is written only by a Classification Step and by the
\* return of a Gate pass, which clears it: after every Gate pass no request
\* is pending.  Over a run no call is gone through twice: every request id
\* has at most one tool entry in the trace and at most one executor call,
\* and the calls of the pass under way have no entry in the trace yet.
C23_RequestsConsumedOnce ==
    /\ [][tool_calls' # tool_calls =>
            \/ pc = "classifyTool" /\ pc' = "route"
            \/ GateReturns]_vars
    /\ [][GateReturns => ~tool_calls'.some]_vars
    /\ [](pc = "classifyTool" => ~tool_calls.some)
    /\ [](\A i, j \in 1..Len(executorCalls) :
            executorCalls[i].toolCallId = executorCalls[j].toolCallId => i = j)
    /\ [](\A i \in 1..Len(trace) :
            IsTool(trace[i]) => EntriesOf(trace, trace[i].data.toolCallId) = {i})
    /\ [](pc = "verifyAndExecuteToolIntent" =>
            \A i \in 1..Len(tool_calls.v) : EntriesOf(trace, tool_calls.v[i].id) = {})

\* two Gate passes over, each with an executed call, and nothing pending
C23_Witness ==
    /\ pc = "classifyTool"
    /\ gatePasses = 2
    /\ ~tool_calls.some
    /\ Len(executorCalls) >= 2
    /\ Len(ToolEntries(trace)) >= 2

\* the value the contract of normalize gives for one value of a mapping
NormalizedValue(value) ==
    IF value.t = "str" /\ (StartsWith(value.s, "{") \/ StartsWith(value.s, "["))
    THEN IF JSONparse(value.s).some THEN JSONparse(value.s).v ELSE value
    ELSE IF value.t = "obj" THEN Obj(parseStringifiedJsonFields(value.f))
    ELSE value

\* C24: for the argument mapping of every call the Gate has normalized, the
\* normalized mapping has the keys of the arguments, and under each key a
\* string beginning with '{' or '[' is replaced by its parsed value when it
\* parses and is the same string when it does not, a non-array mapping is
\* the normalized mapping, and every other value is the value itself; the
\* arguments of the request are left as they were.
C24_NormalizeTotalAndPure ==
    /\ pc = "verifyAndExecuteToolIntent" =>
         \A i \in 1..Len(traceEntries) :
            LET args == tool_calls.v[i].args
                normalized == parseStringifiedJsonFields(args)
            IN  TOOL_BY_NAME(tool_calls.v[i].name) # "undefined" =>
                   /\ DOMAIN normalized = DOMAIN args
                   /\ \A key \in DOMAIN args : normalized[key] = NormalizedValue(args[key])
    /\ pc = "verifyAndExecuteToolIntent" =>
         \A i \in 1..Len(traceEntries) :
            traceEntries[i].data.toolCallId = tool_calls.v[i].id

\* a where clause that begins with '{' and does not parse was left as the
\* same string, beside the other values of its mapping
C24_Witness ==
    /\ pc = "verifyAndExecuteToolIntent"
    /\ Len(traceEntries) >= 1
    /\ tool_calls.v[1].args = CandidateBrokenCall.args
    /\ ~traceEntries[1].data.inputValid
    /\ traceEntries[1].data.input = CandidateBrokenCall.args

\* the lookup tools, the rows each one filters, and a typed query whose
\* filter no row passes
LookupTools == {"db_query_candidates", "db_query_opportunities"}
MockRows(toolName) ==
    IF toolName = "db_query_candidates" THEN mockCandidates ELSE mockOpportunities
MatchesNoRow(toolName, dbInput) ==
    \A row \in Range(MockRows(toolName)) :
        row[dbInput.where.f.field.s] # dbInput.where.f.value.s

\* C25: every call of a lookup tool that passed the input schema and whose
\* filter matches no row of the table has a failure observation with
\* error_type "not_found".
C25_NoRowIsNotFound ==
    pc = "verifyAndExecuteToolIntent" =>
    \A i \in 1..Len(traceEntries) :
        LET entry == traceEntries[i].data IN
        (/\ entry.toolName \in LookupTools
         /\ entry.inputValid
         /\ MatchesNoRow(entry.toolName, entry.input)) =>
            /\ ~entry.success
            /\ ~entry.observation.success
            /\ entry.observation.error_type = "not_found"

\* an opportunities query by a name no row has, answered not_found
C25_Witness ==
    /\ pc = "verifyAndExecuteToolIntent"
    /\ Len(traceEntries) >= 1
    /\ traceEntries[1].data.toolName = "db_query_opportunities"
    /\ traceEntries[1].data.inputValid
    /\ MatchesNoRow("db_query_opportunities", traceEntries[1].data.input)
    /\ ~traceEntries[1].data.observation.success
    /\ traceEntries[1].data.observation.error_type = "not_found"

\* the observation the Gate pushed for an executor call of the pass under way
Observed(executorCall) ==
    (CHOOSE entry \in Range(traceEntries) :
        entry.data.toolCallId = executorCall.toolCallId).data.observation

\* C26: a web fetch aborted by its timeout is answered by a failure
\* observation, and the error_type of that observation is not the error_type
\* of the observation a web fetch gets whose request failed for another
\* reason.
C26_TimeoutDistinguished ==
    pc = "verifyAndExecuteToolIntent" =>
    \A i \in 1..Len(executorCalls) :
        executorCalls[i].net.kind = "abort" =>
            /\ ~Observed(executorCalls[i]).success
            /\ \A j \in 1..Len(executorCalls) :
                  executorCalls[j].net.kind = "failed" =>
                      Observed(executorCalls[j]).error_type
                          # Observed(executorCalls[i]).error_type

\* a fetch that timed out, answered by a failure whose message says so
C26_Witness ==
    /\ pc = "verifyAndExecuteToolIntent"
    /\ Len(executorCalls) = 1
    /\ executorCalls[1].net.kind = "abort"
    /\ ~Observed(executorCalls[1]).success
    /\ Observed(executorCalls[1]).error_message = "Request timed out after 2500ms"

\* C27: a web fetch whose response has a status outside 200..299 is
\* answered by a failure observation with error_type "http_error", pushed
\* as the tool result of its call.
C27_HttpErrorObserved ==
    pc = "verifyAndExecuteToolIntent" =>
    \A i \in 1..Len(executorCalls) :
        (/\ executorCalls[i].net.kind = "response"
         /\ ~(executorCalls[i].net.status \in 200..299)) =>
            /\ ~Observed(executorCalls[i]).success
            /\ Observed(executorCalls[i]).error_type = "http_error"
            /\ \E k \in 1..Len(toolMessages) :
                  /\ toolMessages[k].tool_call_id = executorCalls[i].toolCallId
                  /\ toolMessages[k].content = JSONstringify(Observed(executorCalls[i]))

\* a 404 response was answered by a failure observation pushed as the tool
\* result, and the pass went on
C27_Witness ==
    /\ pc = "verifyAndExecuteToolIntent"
    /\ Len(executorCalls) = 1
    /\ executorCalls[1].net.kind = "response"
    /\ executorCalls[1].net.status = 404
    /\ ~Observed(executorCalls[1]).success
    /\ toolMessages[1].content = JSONstringify(Observed(executorCalls[1]))
    /\ callIndex = 2

\* the text holds the words
Mentions(text, words) ==
    \E i \in 1..(Len(text) - Len(words) + 1) : SubSeq(text, i, i + Len(words) - 1) = words

\* C28: every calculator call that passed the input schema with operation
\* divide and b = 0, whatever its a, has a failure observation whose
\* error_type is invalid_calculation or runtime_error and whose
\* error_message mentions division by zero.
C28_DivisionByZeroFails ==
    pc = "verifyAndExecuteToolIntent" =>
    \A i \in 1..Len(traceEntries) :
        LET entry == traceEntries[i].data IN
        (/\ entry.toolName = "calculator"
         /\ entry.inputValid
         /\ entry.input.operation.s = "divide"
         /\ entry.input.b.n = 0) =>
            /\ ~entry.observation.success
            /\ "result" \notin DOMAIN entry.observation
            /\ entry.observation.error_type \in {"invalid_calculation", "runtime_error"}
            /\ Mentions(entry.observation.error_message, "ivision by zero")

\* zero divided by zero was answered by the division-by-zero failure
C28_Witness ==
    /\ pc = "verifyAndExecuteToolIntent"
    /\ Len(traceEntries) >= 1
    /\ tool_calls.v[1].args = CalcZeroByZeroCall.args
    /\ traceEntries[1].data.inputValid
    /\ ~traceEntries[1].data.observation.success
    /\ traceEntries[1].data.observation.error_type = "invalid_calculation"
    /\ traceEntries[1].data.observation.error_message = "Division by zero"

\* the reference arithmetic on the numbers of the model, whose quotients
\* are exact
ReferenceResult(operation, a, b) ==
    CASE operation = "multiply" -> a * b
      [] operation = "add" -> a + b
      [] operation = "subtract" -> a - b
      [] operation = "divide" -> a \div b

\* C29: every calculator call that passed the input schema, whose executor
\* did not throw and whose result is finite, has the observation
\* {success: true, result, a, b, operation} with result the reference
\* arithmetic of a and b and with a, b and operation as they were sent.
C29_CalculatorSuccess ==
    pc = "verifyAndExecuteToolIntent" =>
    \A i \in 1..Len(traceEntries) :
        LET entry == traceEntries[i].data
            sent == tool_calls.v[i].args
        IN
        (/\ entry.toolName = "calculator"
         /\ entry.inputValid
         /\ entry.input.a.n # CalculatorThrowsOn
         /\ ~(entry.input.operation.s = "divide" /\ entry.input.b.n = 0)) =>
            /\ entry.success
            /\ entry.observation =
                  [success |-> TRUE,
                   result |-> ReferenceResult(sent.operation.s, sent.a.n, sent.b.n),
                   a |-> sent.a.n, b |-> sent.b.n, operation |-> sent.operation.s]
            /\ toolMessages[i].content = JSONstringify(entry.observation)

\* a pass that multiplied 5 by 5 and subtracted 7 from 2
C29_Witness ==
    /\ pc = "verifyAndExecuteToolIntent"
    /\ Len(traceEntries) = 2
    /\ traceEntries[1].data.toolName = "calculator"
    /\ traceEntries[1].data.inputValid
    /\ traceEntries[1].data.observation =
          [success |-> TRUE, result |-> 25, a |-> 5, b |-> 5, operation |-> "multiply"]
    /\ traceEntries[2].data.toolName = "calculator"
    /\ traceEntries[2].data.inputValid
    /\ traceEntries[2].data.observation =
          [success |-> TRUE, result |-> 0 - 5, a |-> 2, b |-> 7, operation |-> "subtract"]

\* the channels of a call, as the record the nodes and the assembler read
ChannelsOf(query) ==
    [messages |-> query.messages, userQuery |-> query.userQuery,
     tool_calls |-> query.tool_calls, step |-> query.step, response |-> query.response,
     maxStep |-> query.maxStep, trace |-> query.trace]

\* what a call holds is what a call running alone holds: its conversation
\* begins with its own query, its trace is the entries its own nodes
\* returned, and once it has returned its response is the one the entry point
\* makes of its own final state or of its own exception
OwnRun(query) ==
    /\ query.messages[1] = HumanMessage(query.userQuery)
    /\ query.trace = query.returned
    /\ query.pc = "returned" =>
          query.agentResponse.v =
             (IF query.thrown.some THEN ErrorResponse(query.userQuery, query.thrown.v)
              ELSE Assemble(ChannelsOf(query)))

C31_BudgetBoundsPassesAndModelCalls ==
    /\ maxStep >= 1 => gatePasses <= maxStep - 1 /\ modelCalls <= maxStep - 1
    /\ maxStep <= 1 =>
          /\ modelCalls = 0 /\ gatePasses = 0 /\ executorCalls = <<>>
          /\ pc \in {"classifyTool", "route", END, "returned"}
          /\ pc = "returned" => agentResponse.v.status = "max_attempts_reached"

\* a run with maxStep 1 that returned without a model call or a Gate pass
C31_Witness ==
    /\ pc = "returned"
    /\ maxStep = 1
    /\ modelCalls = 0 /\ gatePasses = 0 /\ executorCalls = <<>>
    /\ agentResponse.v.status = "max_attempts_reached"
    /\ agentResponse.v.metadata.totalSteps = 1

\* the tool-result messages of the conversation for one call id
ResultsOf(id) ==
    {i \in 1..Len(messages) : messages[i].type = "tool" /\ messages[i].tool_call_id = id}

\* C32: the router sends every state with pending requests to the Gate, and
\* when a run in which the model call did not fail has returned, every call
\* id the model requested has exactly one tool-result message in the
\* conversation and exactly one execution entry in the trace.
C32_EveryRequestAnswered ==
    /\ [][pc = "route" /\ tool_calls.some /\ tool_calls.v # <<>> =>
            pc' = "verifyAndExecuteToolIntent"]_vars
    /\ [](pc = "returned" /\ ~ModelFaulted =>
            \A j \in 1..Len(messages) :
                messages[j].type = "ai" =>
                    \A k \in 1..Len(messages[j].tool_calls) :
                        /\ Cardinality(ResultsOf(messages[j].tool_calls[k].id)) = 1
                        /\ Cardinality(EntriesOf(trace, messages[j].tool_calls[k].id)) = 1)

\* a run of two passes of two calls each that returned with its four
\* requests answered
C32_Witness ==
    /\ pc = "returned"
    /\ ~thrown.some
    /\ gatePasses = 2
    /\ Len(ToolEntries(trace)) = 4
    /\ AllRequestsAnswered
    /\ Cardinality(ResultsOf(messages[2].tool_calls[1].id)) = 1

\* the positions of the decision entries of a trace
DecisionIndexes(entries) == {i \in 1..Len(entries) : entries[i].type = "llm"}

\* the shape of the trace of a finished run: it starts with a decision; the
\* j-th decision has step j; a tool_use decision listing k tools is followed
\* by exactly k execution entries of its step, with its tool names in its
\* order; the decisions that end a run (final_answer, max_attempts) are the
\* last entry and no other
TraceShape(entries) ==
    /\ entries # <<>>
    /\ entries[1].type = "llm"
    /\ Last(entries).type = "llm"
    /\ Last(entries).data.decision \in {"final_answer", "max_attempts"}
    /\ \A i \in DecisionIndexes(entries) :
          /\ entries[i].data.step = Cardinality({j \in DecisionIndexes(entries) : j <= i})
          /\ entries[i].data.decision \in {"final_answer", "max_attempts"} => i = Len(entries)
          /\ entries[i].data.decision = "tool_use" =>
                LET k == Len(entries[i].data.toolsCalled) IN
                /\ i + k + 1 <= Len(entries)
                /\ entries[i + k + 1].type = "llm"
                /\ \A n \in 1..k :
                      /\ entries[i + n].type = "tool"
                      /\ entries[i + n].data.step = entries[i].data.step
                      /\ entries[i + n].data.toolName = entries[i].data.toolsCalled[n]

\* C33: when a run in which the model call did not fail has returned, the
\* trace of its response has the shape of a finished run (TraceShape).
C33_TraceShape ==
    pc = "returned" /\ ~ModelFaulted => TraceShape(agentResponse.v.trace)

\* a returned trace of seven entries: two tool_use decisions of two calls
\* each, their four execution entries, and the max_attempts decision
C33_Witness ==
    /\ pc = "returned"
    /\ ~thrown.some
    /\ Len(agentResponse.v.trace) = 7
    /\ TraceShape(agentResponse.v.trace)
    /\ agentResponse.v.trace[4].data.decision = "tool_use"
    /\ agentResponse.v.trace[7].data.decision = "max_attempts"

\* the response returned is one of the two variants of the try block
ReturnedFromTry ==
    /\ pc = "returned"
    /\ agentResponse.v.status \in {"success", "max_attempts_reached"}

\* C34: in a response with status success or max_attempts_reached,
\* metadata.totalSteps is 1 plus the number of Gate passes of the run and is
\* at most maxStep; it is maxStep when the status is max_attempts_reached,
\* and it is 1 when the run had no tool-call request.
C34_TotalSteps ==
    ReturnedFromTry =>
        LET totalSteps == agentResponse.v.metadata.totalSteps IN
        /\ totalSteps = 1 + gatePasses
        /\ totalSteps <= maxStep
        /\ agentResponse.v.status = "max_attempts_reached" =>
              /\ totalSteps = maxStep
              /\ agentResponse.v.metadata.maxSteps = maxStep
        /\ (\A i \in 1..Len(trace) : ~IsDecision(trace[i], "tool_use")) => totalSteps = 1

\* a query answered after one Gate pass reports two steps
C34_Witness ==
    /\ ReturnedFromTry
    /\ agentResponse.v.status = "success"
    /\ gatePasses = 1
    /\ agentResponse.v.metadata.totalSteps = 2

\* C35: in a response with status success or max_attempts_reached,
\* metadata.toolsUsed has no name twice and its names are exactly the
\* toolName values of the execution entries of the returned trace, the
\* entries of calls rejected as unknown or for their arguments included.
C35_ToolsUsedFromTrace ==
    ReturnedFromTry =>
        LET toolsUsed == agentResponse.v.metadata.toolsUsed
            entries == ToolEntries(agentResponse.v.trace)
        IN  /\ Cardinality(Range(toolsUsed)) = Len(toolsUsed)
            /\ Range(toolsUsed) = {entries[i].data.toolName : i \in 1..Len(entries)}
            /\ \A i \in 1..Len(entries) :
                  ~entries[i].data.inputValid =>
                      entries[i].data.toolName \in Range(toolsUsed)

\* a response that lists a name no tool has and the calculator, called
\* twice, once: nothing but the calculator was executed
C35_Witness ==
    /\ ReturnedFromTry
    /\ agentResponse.v.metadata.toolsUsed = <<"does_not_exist", "calculator">>
    /\ Len(ToolEntries(agentResponse.v.trace)) = 3
    /\ \A i \in 1..Len(executorCalls) : executorCalls[i].toolName = "calculator"

====
